---------------------------- MODULE Spec2Model ----------------------------
(***************************************************************************)
(* Health-Tracker (app_folder/app.py): the menstrual-cycle analysis        *)
(* functions and the session / log-store handlers of the Flask             *)
(* application.                                                            *)
(*                                                                         *)
(* A Python str is modelled as the sequence of its characters, so that     *)
(* datetime.strptime and strftime are computed, not assumed.  A datetime   *)
(* at midnight is modelled by its proleptic Gregorian ordinal.  A Python   *)
(* Optional value is a sequence of length 0 (None) or 1.                   *)
(***************************************************************************)
EXTENDS Integers, Sequences, FiniteSets, TLC

(***************************************************************************)
(* Bounds of the model.                                                    *)
(***************************************************************************)
\* Longest period history drawn as an input of the cycle functions.
MaxLen == 3

(***************************************************************************)
(* Characters and string literals of the program.                          *)
(***************************************************************************)
DigitChars == <<"0", "1", "2", "3", "4", "5", "6", "7", "8", "9">>

Digits == {DigitChars[i] : i \in 1..10}

DigitVal(c) == CHOOSE v \in 0..9 : DigitChars[v + 1] = c

\* "Need more data for prediction"
NEED_MORE_DATA_FOR_PREDICTION ==
  <<"N","e","e","d"," ","m","o","r","e"," ","d","a","t","a"," ",
    "f","o","r"," ","p","r","e","d","i","c","t","i","o","n">>

\* 'Need more data'
NEED_MORE_DATA == <<"N","e","e","d"," ","m","o","r","e"," ","d","a","t","a">>

\* 'Insufficient data'
INSUFFICIENT_DATA ==
  <<"I","n","s","u","f","f","i","c","i","e","n","t"," ","d","a","t","a">>

\* 'No data'
NO_DATA == <<"N","o"," ","d","a","t","a">>

VERY_REGULAR == <<"V","e","r","y"," ","R","e","g","u","l","a","r">>

REGULAR == <<"R","e","g","u","l","a","r">>

SLIGHTLY_IRREGULAR ==
  <<"S","l","i","g","h","t","l","y"," ","I","r","r","e","g","u","l","a","r">>

IRREGULAR == <<"I","r","r","e","g","u","l","a","r">>

\* " to ", the separator of the fertile window's f-string
TO_SEP == <<" ", "t", "o", " ">>

(***************************************************************************)
(* datetime: the proleptic Gregorian calendar of Python's datetime module, *)
(* as used through strptime, timedelta arithmetic and strftime.            *)
(***************************************************************************)
is_leap(y) == (y % 4 = 0) /\ ((y % 100 # 0) \/ (y % 400 = 0))

DAYS_IN_MONTH == <<31, 28, 31, 30, 31, 30, 31, 31, 30, 31, 30, 31>>

DAYS_BEFORE_MONTH == <<0, 31, 59, 90, 120, 151, 181, 212, 243, 273, 304, 334>>

days_in_month(y, m) ==
  IF m = 2 /\ is_leap(y) THEN 29 ELSE DAYS_IN_MONTH[m]

days_before_year(y) ==
  LET p == y - 1 IN p * 365 + (p \div 4) - (p \div 100) + (p \div 400)

days_before_month(y, m) ==
  DAYS_BEFORE_MONTH[m] + (IF m > 2 /\ is_leap(y) THEN 1 ELSE 0)

\* date(y, m, d).toordinal()
ymd2ord(y, m, d) == days_before_year(y) + days_before_month(y, m) + d

\* date.fromordinal(n), as the record [year, month, day]
ord2ymd(ordinal) ==
  LET n0   == ordinal - 1
      n400 == n0 \div 146097
      r400 == n0 % 146097
      n100 == r400 \div 36524
      r100 == r400 % 36524
      n4   == r100 \div 1461
      r4   == r100 % 1461
      n1   == r4 \div 365
      n    == r4 % 365
      year == n400 * 400 + 1 + n100 * 100 + n4 * 4 + n1
  IN  IF n1 = 4 \/ n100 = 4
        THEN [year |-> year - 1, month |-> 12, day |-> 31]
        ELSE
          LET leapyear  == (n1 = 3) /\ ((n4 # 24) \/ (n100 = 3))
              month0    == (n + 50) \div 32
              preceding0 ==
                DAYS_BEFORE_MONTH[month0]
                  + (IF month0 > 2 /\ leapyear THEN 1 ELSE 0)
              month     == IF preceding0 > n THEN month0 - 1 ELSE month0
              preceding ==
                IF preceding0 > n
                  THEN preceding0 - (DAYS_IN_MONTH[month]
                         + (IF month = 2 /\ leapyear THEN 1 ELSE 0))
                  ELSE preceding0
          IN  [year |-> year, month |-> month, day |-> n - preceding + 1]

\* The two-character zero-padded decimal of n (0..99): '%m', '%d'.
Pad2(n) == <<DigitChars[(n \div 10) + 1], DigitChars[(n % 10) + 1]>>

\* The four-character decimal of n (1000..9999): '%Y'.
Pad4(n) ==
  <<DigitChars[(n \div 1000) + 1], DigitChars[((n \div 100) % 10) + 1],
    DigitChars[((n \div 10) % 10) + 1], DigitChars[(n % 10) + 1]>>

\* dt.strftime('%Y-%m-%d') of the datetime with the given ordinal.
strftime(ordinal) ==
  LET c == ord2ymd(ordinal)
  IN  Pad4(c.year) \o <<"-">> \o Pad2(c.month) \o <<"-">> \o Pad2(c.day)

\* The month directive of strptime: 1[0-2] | 0[1-9] | [1-9], as <<value>>,
\* or <<>> when the token does not match.
MonthToken(t) ==
  IF Len(t) = 2 /\ t[1] = "1" /\ t[2] \in {"0", "1", "2"}
    THEN <<10 + DigitVal(t[2])>>
  ELSE IF Len(t) = 2 /\ t[1] = "0" /\ t[2] \in Digits \ {"0"}
    THEN <<DigitVal(t[2])>>
  ELSE IF Len(t) = 1 /\ t[1] \in Digits \ {"0"}
    THEN <<DigitVal(t[1])>>
  ELSE <<>>

\* The day directive of strptime: 3[01] | [12]\d | 0[1-9] | [1-9] | ' [1-9]'.
DayToken(t) ==
  IF Len(t) = 2 /\ t[1] = "3" /\ t[2] \in {"0", "1"}
    THEN <<30 + DigitVal(t[2])>>
  ELSE IF Len(t) = 2 /\ t[1] \in {"1", "2"} /\ t[2] \in Digits
    THEN <<10 * DigitVal(t[1]) + DigitVal(t[2])>>
  ELSE IF Len(t) = 2 /\ t[1] \in {"0", " "} /\ t[2] \in Digits \ {"0"}
    THEN <<DigitVal(t[2])>>
  ELSE IF Len(t) = 1 /\ t[1] \in Digits \ {"0"}
    THEN <<DigitVal(t[1])>>
  ELSE <<>>

\* datetime.strptime(s, '%Y-%m-%d'): <<ordinal>> of the parsed date, or <<>>
\* when strptime raises ValueError (no match, unconverted data, or a day
\* that the month does not have).
strptime(s) ==
  IF Len(s) < 8 \/ (\E i \in 1..4 : s[i] \notin Digits) \/ s[5] # "-"
    THEN <<>>
    ELSE
      LET year == 1000 * DigitVal(s[1]) + 100 * DigitVal(s[2])
                    + 10 * DigitVal(s[3]) + DigitVal(s[4])
          \* the month token ends at the next '-'
          mlen == IF s[7] = "-" THEN 1 ELSE IF s[8] = "-" THEN 2 ELSE 0
      IN  IF mlen = 0 \/ year = 0
            THEN <<>>
            ELSE
              LET mon == MonthToken(SubSeq(s, 6, 5 + mlen))
                  dom == DayToken(SubSeq(s, 7 + mlen, Len(s)))
              IN  IF mon = <<>> \/ dom = <<>>
                    THEN <<>>
                  ELSE IF dom[1] > days_in_month(year, mon[1])
                    THEN <<>>
                  ELSE <<ymd2ord(year, mon[1], dom[1])>>


(***************************************************************************)
(* Results of a call: a returned value, or an exception that propagates    *)
(* to the caller.                                                          *)
(***************************************************************************)
Return(v) == [raised |-> FALSE, value |-> v]

Raise(e) == [raised |-> TRUE, error |-> e]

(***************************************************************************)
(* Helpers over lists of integers: sum(), max(), min(), list.sort().       *)
(***************************************************************************)
RECURSIVE Sum(_)
Sum(s) == IF s = <<>> THEN 0 ELSE s[1] + Sum(Tail(s))

Max(s) == CHOOSE x \in {s[i] : i \in 1..Len(s)} :
            \A i \in 1..Len(s) : s[i] <= x

Min(s) == CHOOSE x \in {s[i] : i \in 1..Len(s)} :
            \A i \in 1..Len(s) : x <= s[i]

\* x inserted into the ascending list s, after the elements equal to it
Insert(s, x) ==
  LET k == Cardinality({i \in 1..Len(s) : s[i] <= x})
  IN  SubSeq(s, 1, k) \o <<x>> \o SubSeq(s, k + 1, Len(s))

\* Faulty variant of Sorted: the list is left in the order supplied.
Unsorted(s) == s

RECURSIVE Sorted(_)
\* period_dates.sort()
Sorted(s) ==
  IF s = <<>> THEN <<>>
  ELSE Insert(Sorted(SubSeq(s, 1, Len(s) - 1)), s[Len(s)])

(***************************************************************************)
(* calculate_cycle_analysis                                                *)
(***************************************************************************)
RECURSIVE period_dates_abort(_)
\* Faulty variant of period_dates: the loop stops at the first start that fails to
\* parse (break for continue).
period_dates_abort(period_history) ==
  IF period_history = <<>> THEN <<>>
  ELSE
    LET start_date == strptime(period_history[1].start)
    IN  IF start_date = <<>> THEN <<>>
        ELSE start_date \o period_dates_abort(Tail(period_history))

RECURSIVE period_dates(_)
\* The loop that parses every record's start and skips those that raise.
period_dates(period_history) ==
  IF period_history = <<>> THEN <<>>
  ELSE
    LET start_date == strptime(period_history[1].start)
    IN  start_date \o period_dates(Tail(period_history))

\* Faulty variant of insufficient_data: last_period_start is read from the last
\* record (period_history[-1]).
insufficient_data_last(period_history) ==
  [cycle_length      |-> 28,
   period_duration   |-> 5,
   cycle_regularity  |-> INSUFFICIENT_DATA,
   next_ovulation    |-> NEED_MORE_DATA,
   fertile_window    |-> NEED_MORE_DATA,
   last_period_start |->
     IF period_history # <<>>
       THEN period_history[Len(period_history)].start ELSE NO_DATA]

\* The dict returned by both "fewer than 2" branches.
insufficient_data(period_history) ==
  [cycle_length      |-> 28,
   period_duration   |-> 5,
   cycle_regularity  |-> INSUFFICIENT_DATA,
   next_ovulation    |-> NEED_MORE_DATA,
   fertile_window    |-> NEED_MORE_DATA,
   last_period_start |->
     IF period_history # <<>> THEN period_history[1].start ELSE NO_DATA]

\* differences of the sorted dates, in days
differences(sorted_dates) ==
  [i \in 1..(Len(sorted_dates) - 1) |-> sorted_dates[i + 1] - sorted_dates[i]]

\* sum(differences) // len(differences)
avg_cycle(diffs) == Sum(diffs) \div Len(diffs)

\* max(differences) - min(differences)
cycle_variance(diffs) == Max(diffs) - Min(diffs)

\* Faulty variant of regularity: the thresholds are exclusive (< for <=).
regularity_strict(variance) ==
  IF variance < 3 THEN VERY_REGULAR
  ELSE IF variance < 7 THEN REGULAR
  ELSE IF variance < 10 THEN SLIGHTLY_IRREGULAR
  ELSE IRREGULAR

regularity(variance) ==
  IF variance <= 3 THEN VERY_REGULAR
  ELSE IF variance <= 7 THEN REGULAR
  ELSE IF variance <= 10 THEN SLIGHTLY_IRREGULAR
  ELSE IRREGULAR

\* ovulation_date = last_period + timedelta(avg_cycle) - timedelta(14)
ovulation_date(last_period, cycle) == (last_period + cycle) - 14

fertile_start(ovulation) == ovulation - 3

\* Faulty variant of fertile_end: the window closes on the ovulation day.
fertile_end_short(ovulation) == ovulation

fertile_end(ovulation) == ovulation + 1

calculate_cycle_analysis(period_history) ==
  IF Len(period_history) < 2 THEN insufficient_data(period_history)
  ELSE
    LET dates == period_dates(period_history)
    IN  IF Len(dates) < 2 THEN insufficient_data(period_history)
        ELSE
          LET sorted_dates == Sorted(dates)
              diffs        == differences(sorted_dates)
              cycle        == avg_cycle(diffs)
              last_period  == sorted_dates[Len(sorted_dates)]
              ovulation    == ovulation_date(last_period, cycle)
          IN  [cycle_length      |-> cycle,
               period_duration   |-> 5,
               cycle_regularity  |-> regularity(cycle_variance(diffs)),
               next_ovulation    |-> strftime(ovulation),
               fertile_window    |->
                 strftime(fertile_start(ovulation)) \o TO_SEP
                   \o strftime(fertile_end(ovulation)),
               last_period_start |-> strftime(last_period)]

(***************************************************************************)
(* predict_next_period                                                     *)
(***************************************************************************)
predict_next_period(period_history, cycle_length) ==
  IF Len(period_history) < 1 THEN Return(NEED_MORE_DATA_FOR_PREDICTION)
  ELSE
    LET last_period == strptime(period_history[Len(period_history)].start)
    IN  IF last_period = <<>>
          THEN Raise("ValueError")   \* strptime is not guarded here
          ELSE Return(strftime(last_period[1] + cycle_length))

(***************************************************************************)
(* calculate_period_calendar                                               *)
(***************************************************************************)
\* Faulty variant of calendar_reference: the latest date, as if the list were sorted.
calendar_reference_latest(dates) == Max(dates)

\* The reference date: period_dates[-1]
calendar_reference(dates) == dates[Len(dates)]

\* The entry appended for cycle i (0-based) and day (0-based).
calendar_entry(last_period, cycle_length, i, day) ==
  LET period_date == (last_period + cycle_length * (i + 1)) + day
      c           == ord2ymd(period_date)
  IN  [date         |-> strftime(period_date),
       month        |-> c.month,
       year         |-> c.year,
       cycle_number |-> i + 1]

calculate_period_calendar(period_history, cycle_length, period_duration, months) ==
  IF Len(period_history) < 1 THEN <<>>
  ELSE
    LET dates == period_dates(period_history)
    IN  IF Len(dates) < 1 THEN <<>>
        ELSE
          LET last_period == calendar_reference(dates)
          IN  [k \in 1..(months * period_duration) |->
                 calendar_entry(last_period, cycle_length,
                                (k - 1) \div period_duration,
                                (k - 1) % period_duration)]

(***************************************************************************)
(* get_period_delay.  now is datetime.now(): the ordinal of today's date   *)
(* and the seconds elapsed since midnight.                                 *)
(***************************************************************************)
\* today > predicted_date, predicted_date being midnight of its day
today_after(now, predicted_date) ==
  \/ now.ord > predicted_date
  \/ now.ord = predicted_date /\ now.secs > 0

\* (today - predicted_date).days
delay_days(now, predicted_date) == now.ord - predicted_date

get_period_delay(next_period_prediction, now) ==
  IF next_period_prediction = <<>>
       \/ next_period_prediction = NEED_MORE_DATA_FOR_PREDICTION
    THEN <<>>
    ELSE
      LET predicted_date == strptime(next_period_prediction)
      IN  IF predicted_date = <<>> THEN <<>>
          ELSE IF today_after(now, predicted_date[1])
            THEN <<delay_days(now, predicted_date[1])>>
          ELSE <<>>

(***************************************************************************)
(* State.                                                                  *)
(*   period_history, call, result : one call of a cycle function: the      *)
(*     history it is given, the function and its other arguments, and      *)
(*     what comes back to the caller.                                      *)
(*   users, logs : the contents of users.json and logs.json, as dicts.      *)
(*   session : the Flask session of one browser, a dict.                   *)
(*   clock : the ordinal of the current day (datetime.now()).              *)
(*   response : what the last request was and how it was answered.         *)
(*   threads : the requests being handled concurrently, one per browser:   *)
(*             the position of each in its handler and its local logs.     *)
(*   truncated : logs.json has been opened for writing and holds no        *)
(*               document yet; logs is then the last complete document.    *)
(***************************************************************************)
VARIABLES period_history, call, result, users, logs, session, clock, response,
          threads, truncated

vars == <<period_history, call, result, users, logs, session, clock, response,
          threads, truncated>>

cycle_vars == <<period_history, call, result>>

conc_vars == <<threads, truncated>>

web_vars == <<users, logs, session, clock, response, conc_vars>>

(***************************************************************************)
(* Dicts are functions; {} is the empty function.                          *)
(***************************************************************************)
EmptyDict == <<>>

\* d[k] = v on a dict
Put(d, k, v) == (k :> v) @@ d

\* dict.update(other)
Update(d, other) == other @@ d

\* The first day of the model's clock.
FirstDay == ymd2ord(2024, 1, 29)

\* State when the module has been loaded: initialize_data_files has created
\* both files empty, and the browser holds no session.
WebInit ==
  /\ users = EmptyDict
  /\ logs = EmptyDict
  /\ session = EmptyDict
  /\ clock = FirstDay
  /\ response = [route |-> "none"]
  /\ threads = EmptyDict
  /\ truncated = FALSE

(***************************************************************************)
(* Inputs of the cycle functions.                                          *)
(***************************************************************************)
\* Start strings a record may carry: valid dates (zero-padded or not, which
\* strptime both accepts), an empty string, a date that does not exist and
\* a date in another format.
StartStrings ==
  { <<"2","0","2","4","-","0","1","-","0","1">>,
    <<"2","0","2","4","-","0","1","-","2","9">>,
    <<"2","0","2","4","-","0","2","-","2","6">>,
    <<"2","0","2","4","-","1","-","4">>,
    <<"2","0","2","4","-","0","1","-","1","1">>,
    <<>>,
    <<"2","0","2","4","-","0","2","-","3","0">>,
    <<"2","9","/","0","1","/","2","0","2","4">> }

Histories ==
  UNION { [1..n -> [start : StartStrings]] : n \in 0..MaxLen }

\* Values of datetime.now(): the day before 2024-01-29, that day at
\* midnight and at noon, the next midnight, and nine days later.
Nows ==
  { [ord |-> ymd2ord(2024, 1, 28), secs |-> 43200],
    [ord |-> ymd2ord(2024, 1, 29), secs |-> 0],
    [ord |-> ymd2ord(2024, 1, 29), secs |-> 43200],
    [ord |-> ymd2ord(2024, 1, 30), secs |-> 0],
    [ord |-> ymd2ord(2024, 2, 7),  secs |-> 43200] }

\* cycle_length arguments: the default, and the one the dashboard passes.
CycleLengths(h) == {28, calculate_cycle_analysis(h).cycle_length}

\* (cycle_length, period_duration, months) arguments: the defaults, those
\* the dashboard passes, and a short projection.
CalendarArgs(h) ==
  { <<28, 5, 6>>,
    <<calculate_cycle_analysis(h).cycle_length,
      calculate_cycle_analysis(h).period_duration, 6>>,
    <<30, 3, 2>> }

\* Arguments of get_period_delay: what predict_next_period returned for the
\* history, and the raw start of its last record.
DelayArgs(h) ==
  { predict_next_period(h, c).value :
      c \in {c \in CycleLengths(h) : ~predict_next_period(h, c).raised} }
    \cup {h[i].start : i \in {Len(h)} \ {0}}

(***************************************************************************)
(* The calls: one function is applied to the history drawn by CycleInit.   *)
(***************************************************************************)
CycleInit ==
  /\ period_history \in Histories
  /\ call = [op |-> "none"]
  /\ result = Return(<<>>)
  /\ WebInit

CallCycleAnalysis ==
  /\ call.op = "none"
  /\ call' = [op |-> "calculate_cycle_analysis"]
  /\ result' = Return(calculate_cycle_analysis(period_history))
  /\ UNCHANGED <<period_history, web_vars>>

CallPredictNextPeriod ==
  \E cycle_length \in CycleLengths(period_history) :
    /\ call.op = "none"
    /\ call' = [op |-> "predict_next_period", cycle_length |-> cycle_length]
    /\ result' = predict_next_period(period_history, cycle_length)
    /\ UNCHANGED <<period_history, web_vars>>

CallPeriodCalendar ==
  \E a \in CalendarArgs(period_history) :
    /\ call.op = "none"
    /\ call' = [op |-> "calculate_period_calendar", cycle_length |-> a[1],
                period_duration |-> a[2], months |-> a[3]]
    /\ result' =
         Return(calculate_period_calendar(period_history, a[1], a[2], a[3]))
    /\ UNCHANGED <<period_history, web_vars>>

CallPeriodDelay ==
  \E p \in DelayArgs(period_history), now \in Nows :
    /\ call.op = "none"
    /\ call' = [op |-> "get_period_delay", next_period_prediction |-> p,
                now |-> now]
    /\ result' = Return(get_period_delay(p, now))
    /\ UNCHANGED <<period_history, web_vars>>

CycleNext ==
  \/ CallCycleAnalysis
  \/ CallPredictNextPeriod
  \/ CallPeriodCalendar
  \/ CallPeriodDelay

SpecCycle == CycleInit /\ [][CycleNext]_vars

(***************************************************************************)
(* Vocabulary of the properties: what a history contains, stated without   *)
(* the functions under check.                                              *)
(***************************************************************************)
Parseable(s) == strptime(s) # <<>>

\* Positions of the records whose start parses.
ValidIndices(h) == {i \in 1..Len(h) : Parseable(h[i].start)}

ValidCount(h) == Cardinality(ValidIndices(h))

DateAt(h, i) == strptime(h[i].start)[1]

\* The history with every record whose start is malformed deleted.
WithoutMalformed(h) == SelectSeq(h, LAMBDA r : Parseable(r.start))

\* The k-th smallest valid date of the history, counted with repetitions.
KthDate(h, k) ==
  CHOOSE v \in {DateAt(h, i) : i \in ValidIndices(h)} :
    /\ Cardinality({i \in ValidIndices(h) : DateAt(h, i) < v}) < k
    /\ k <= Cardinality({i \in ValidIndices(h) : DateAt(h, i) <= v})

\* The gap in days between the k-th and the (k+1)-th valid date.
Gap(h, k) == KthDate(h, k + 1) - KthDate(h, k)

GapSet(h) == {Gap(h, k) : k \in 1..(ValidCount(h) - 1)}

RECURSIVE GapSum(_, _)
GapSum(h, k) == IF k = 0 THEN 0 ELSE Gap(h, k) + GapSum(h, k - 1)

LatestValid(h) == KthDate(h, ValidCount(h))

\* The valid date that comes last in the order supplied.
LastSupplied(h) ==
  DateAt(h, CHOOSE i \in ValidIndices(h) : \A j \in ValidIndices(h) : j <= i)

\* The histories that reorder h.
Reorderings(h) ==
  {[i \in 1..Len(h) |-> h[p[i]]] : p \in Permutations(1..Len(h))}

\* The valid records of h with each start rewritten as YYYY-MM-DD.
Respelled(h) ==
  LET w == WithoutMalformed(h)
  IN  [i \in 1..Len(w) |-> [start |-> strftime(strptime(w[i].start)[1])]]

IsAnalysis == call.op = "calculate_cycle_analysis"

IsPrediction == call.op = "predict_next_period"

IsCalendar == call.op = "calculate_period_calendar"

IsDelay == call.op = "get_period_delay"

(***************************************************************************)
(* C1 -- error handling                                                    *)
(***************************************************************************)
\* C1: whatever the history, no call of calculate_cycle_analysis,
\* predict_next_period, calculate_period_calendar or get_period_delay
\* propagates an error to its caller.
C1_NoErrorPropagates == ~result.raised

(***************************************************************************)
(* C2 -- get_period_delay                                                  *)
(***************************************************************************)
\* C2: given a parseable predicted date, get_period_delay returns None when
\* today's date is on or before the predicted date (at any moment of the
\* predicted day), and otherwise the positive number of days between them.
C2_DelayNoneOrPositive ==
  (IsDelay /\ Parseable(call.next_period_prediction)) =>
    LET predicted == strptime(call.next_period_prediction)[1]
    IN  IF call.now.ord <= predicted
          THEN result.value = <<>>
          ELSE /\ result.value = <<call.now.ord - predicted>>
               /\ result.value[1] > 0

(***************************************************************************)
(* C3 -- malformed records                                                 *)
(***************************************************************************)
\* C3 as claimed: calculate_cycle_analysis and calculate_period_calendar
\* return what they return on the history with every malformed record
\* deleted, last_period_start included.
C3_SameAsWithoutMalformed ==
  /\ IsAnalysis =>
       result.value = calculate_cycle_analysis(WithoutMalformed(period_history))
  /\ IsCalendar =>
       result.value =
         calculate_period_calendar(WithoutMalformed(period_history),
           call.cycle_length, call.period_duration, call.months)

\* C3 as amended: the same, except that with fewer than 2 parseable starts
\* last_period_start is the start of the first record as supplied, malformed
\* or not ('No data' for an empty history); every other field is the same.
C3_SameExceptFallbackStart ==
  /\ IsAnalysis =>
       LET clean == calculate_cycle_analysis(WithoutMalformed(period_history))
       IN  IF ValidCount(period_history) >= 2
             THEN result.value = clean
             ELSE /\ [result.value EXCEPT !.last_period_start =
                                             clean.last_period_start] = clean
                  /\ result.value.last_period_start =
                       (IF period_history = <<>> THEN NO_DATA
                        ELSE period_history[1].start)
  /\ IsCalendar =>
       result.value =
         calculate_period_calendar(WithoutMalformed(period_history),
           call.cycle_length, call.period_duration, call.months)

\* A malformed first record in front of a single valid one has been analysed:
\* the malformed start is what last_period_start reports.
C3_Witness ==
  /\ IsAnalysis
  /\ Len(period_history) = 2
  /\ ~Parseable(period_history[1].start)
  /\ period_history[1].start # <<>>
  /\ Parseable(period_history[2].start)
  /\ result.value.last_period_start = period_history[1].start

(***************************************************************************)
(* C4 -- insufficient data                                                 *)
(***************************************************************************)
\* C4: with fewer than 2 parseable starts calculate_cycle_analysis returns
\* exactly the insufficient-data result, whose last_period_start is the
\* start of the first record as supplied, or 'No data' for an empty history.
C4_InsufficientData ==
  (IsAnalysis /\ ValidCount(period_history) < 2) =>
    /\ DOMAIN result.value =
         {"cycle_length", "period_duration", "cycle_regularity",
          "next_ovulation", "fertile_window", "last_period_start"}
    /\ result.value.cycle_length = 28
    /\ result.value.period_duration = 5
    /\ result.value.cycle_regularity = INSUFFICIENT_DATA
    /\ result.value.next_ovulation = NEED_MORE_DATA
    /\ result.value.fertile_window = NEED_MORE_DATA
    /\ result.value.last_period_start =
         (IF period_history = <<>> THEN NO_DATA ELSE period_history[1].start)

\* Several records of which exactly one parses, and it is not the first.
C4_Witness ==
  /\ IsAnalysis
  /\ Len(period_history) = 3
  /\ ValidCount(period_history) = 1
  /\ ~Parseable(period_history[1].start)
  /\ result.value.cycle_regularity = INSUFFICIENT_DATA

(***************************************************************************)
(* C5 -- cycle length                                                      *)
(***************************************************************************)
\* C5: with n >= 2 parseable starts in any order, cycle_length is the floor
\* of the sum of the n-1 gaps between consecutive ascending valid dates
\* divided by n-1, last_period_start is the latest valid date, and a history
\* with the same multiset of valid dates (reordered, or respelled without
\* its malformed records) gives the identical result.
C5_CycleLength ==
  (IsAnalysis /\ ValidCount(period_history) >= 2) =>
    LET n == ValidCount(period_history)
    IN  /\ result.value.cycle_length = GapSum(period_history, n - 1) \div (n - 1)
        /\ strptime(result.value.last_period_start)
             = <<LatestValid(period_history)>>
        /\ \A h2 \in Reorderings(period_history) :
             calculate_cycle_analysis(h2) = result.value
        /\ calculate_cycle_analysis(Respelled(period_history)) = result.value

\* Three valid dates supplied out of order whose gaps (7 and 18) do not
\* average to a whole number.
C5_Witness ==
  /\ IsAnalysis
  /\ ValidCount(period_history) = 3
  /\ DateAt(period_history, 1) > DateAt(period_history, 2)
  /\ GapSum(period_history, 2) % 2 = 1
  /\ result.value.cycle_length = 12

(***************************************************************************)
(* C6 -- regularity                                                        *)
(***************************************************************************)
\* The largest minus the smallest gap between consecutive valid dates.
GapSpread(h) ==
  LET hi == CHOOSE g \in GapSet(h) : \A x \in GapSet(h) : x <= g
      lo == CHOOSE g \in GapSet(h) : \A x \in GapSet(h) : g <= x
  IN  hi - lo

\* C6: with at least 2 parseable starts, cycle_regularity is 'Very Regular'
\* for a spread (max gap - min gap) of at most 3, 'Regular' for 4..7,
\* 'Slightly Irregular' for 8..10 and 'Irregular' above 10.
C6_Regularity ==
  (IsAnalysis /\ ValidCount(period_history) >= 2) =>
    LET v == GapSpread(period_history)
    IN  /\ (v <= 3) <=> (result.value.cycle_regularity = VERY_REGULAR)
        /\ (3 < v /\ v <= 7) <=> (result.value.cycle_regularity = REGULAR)
        /\ (7 < v /\ v <= 10) <=>
             (result.value.cycle_regularity = SLIGHTLY_IRREGULAR)
        /\ (v > 10) <=> (result.value.cycle_regularity = IRREGULAR)

\* A history whose spread is exactly 7, the upper edge of 'Regular'.
C6_Witness ==
  /\ IsAnalysis
  /\ ValidCount(period_history) >= 2
  /\ GapSpread(period_history) = 7
  /\ result.value.cycle_regularity = REGULAR

(***************************************************************************)
(* C7 -- ovulation and fertile window                                      *)
(***************************************************************************)
\* C7: with at least 2 parseable starts, next_ovulation is the latest valid
\* date + cycle_length - 14 days and fertile_window is "<next_ovulation - 3>
\* to <next_ovulation + 1>": 5 days that contain next_ovulation and end 13
\* days before latest date + cycle_length.
C7_FertileWindow ==
  (IsAnalysis /\ ValidCount(period_history) >= 2) =>
    LET latest == LatestValid(period_history)
        fw     == result.value.fertile_window
        ov     == strptime(result.value.next_ovulation)
        first  == strptime(SubSeq(fw, 1, 10))
        last   == strptime(SubSeq(fw, 15, 24))
    IN  /\ Len(result.value.next_ovulation) = 10
        /\ ov = <<latest + result.value.cycle_length - 14>>
        /\ Len(fw) = 24
        /\ SubSeq(fw, 11, 14) = TO_SEP
        /\ first = <<ov[1] - 3>>
        /\ last = <<ov[1] + 1>>
        /\ last[1] - first[1] + 1 = 5
        /\ first[1] <= ov[1] /\ ov[1] <= last[1]
        /\ last[1] = latest + result.value.cycle_length - 13

\* The history 2024-01-01, 2024-01-29, 2024-02-26: ovulation 2024-03-11.
C7_Witness ==
  /\ IsAnalysis
  /\ ValidCount(period_history) = 3
  /\ result.value.cycle_length = 28
  /\ result.value.next_ovulation = <<"2","0","2","4","-","0","3","-","1","1">>
  /\ result.value.fertile_window =
       <<"2","0","2","4","-","0","3","-","0","8">> \o TO_SEP
         \o <<"2","0","2","4","-","0","3","-","1","2">>

(***************************************************************************)
(* C8 -- predict_next_period                                               *)
(***************************************************************************)
\* Some valid date of the history is supplied before an earlier one.
OutOfOrder(h) ==
  \E i, j \in ValidIndices(h) : i < j /\ DateAt(h, i) > DateAt(h, j)

\* C8: predict_next_period returns 'Need more data for prediction' for an
\* empty history and, for every non-empty history, the start date of the
\* last record as supplied plus cycle_length days; for a history not in
\* ascending order that differs from the latest date plus cycle_length.
C8_PredictsFromLastRecord ==
  IsPrediction =>
    IF period_history = <<>>
      THEN result = Return(NEED_MORE_DATA_FOR_PREDICTION)
      ELSE /\ ~result.raised
           /\ Parseable(period_history[Len(period_history)].start) =>
                strptime(result.value) =
                  <<DateAt(period_history, Len(period_history))
                      + call.cycle_length>>
           /\ (ValidCount(period_history) >= 2 /\ OutOfOrder(period_history)) =>
                strptime(result.value) #
                  <<LatestValid(period_history) + call.cycle_length>>

(***************************************************************************)
(* C9 -- calculate_period_calendar                                         *)
(***************************************************************************)
\* C9: with at least one parseable start the calendar has exactly
\* months * period_duration entries, grouped by cycle_number 1..months in
\* order; the entry of cycle i and day d (0-based) is dated reference +
\* cycle_length * i + d, the reference being the last parseable start in the
\* order supplied.  With no parseable start the calendar is empty.
C9_Calendar ==
  IsCalendar =>
    IF ValidCount(period_history) = 0
      THEN result.value = <<>>
      ELSE
        LET reference == LastSupplied(period_history)
            cal       == result.value
        IN  /\ Len(cal) = call.months * call.period_duration
            /\ \A i \in 1..call.months, d \in 0..(call.period_duration - 1) :
                 LET e == cal[(i - 1) * call.period_duration + d + 1]
                 IN  /\ e.cycle_number = i
                     /\ e.date = strftime(reference + call.cycle_length * i + d)
            /\ \A k \in 1..(Len(cal) - 1) :
                 \/ /\ cal[k + 1].cycle_number = cal[k].cycle_number
                    /\ strptime(cal[k + 1].date)[1] = strptime(cal[k].date)[1] + 1
                 \/ cal[k + 1].cycle_number = cal[k].cycle_number + 1

\* A calendar projected from a history whose last parseable start is
\* neither its last record nor its latest date.
C9_Witness ==
  /\ IsCalendar
  /\ Len(period_history) = 3
  /\ ValidIndices(period_history) = {1, 2}
  /\ DateAt(period_history, 1) > DateAt(period_history, 2)
  /\ Len(result.value) = 30
  /\ result.value[1].date =
       strftime(DateAt(period_history, 2) + call.cycle_length)

(***************************************************************************)
(* The web application: requests of one browser session, each handled to   *)
(* completion before the next.                                             *)
(***************************************************************************)
\* Number of days the clock runs through.
MaxDays == 2

\* hashlib.sha256(password).hexdigest(), taken as collision-free
hash_password(password) == <<"sha256", password>>

\* f"user_{n}"
user_id_of(n) == <<"user_", n>>

\* datetime.now().strftime('%H:%M'); every request is made at 08:00
get_current_time == <<"0","8",":","0","0">>

\* datetime.now().strftime('%Y-%m-%d')
today_of(day) == strftime(day)

initialize_daily_log ==
  [meals        |-> [morning |-> <<>>, afternoon |-> <<>>, evening |-> <<>>,
                     dinner_snacks |-> <<>>],
   water_ml     |-> 0,
   sleep_hours  |-> 0,
   tasks        |-> <<>>,
   period       |-> [start |-> <<>>, end |-> <<>>, notes |-> <<>>],
   last_updated |-> [breakfast |-> <<>>, lunch |-> <<>>, evening |-> <<>>,
                     dinner |-> <<>>, water |-> <<>>, sleep |-> <<>>,
                     tasks |-> <<>>, period |-> <<>>]]

\* Registration forms submitted: a female user, and a user whose own e-mail
\* and password are the first form's parent e-mail and password.
RegisterForms ==
  { [name |-> "Asha", email |-> "asha@x.org", password |-> "pw-a",
     gender |-> "female", age |-> 16, parent_name |-> "Priya",
     parent_email |-> "priya@x.org", parent_password |-> "pw-p"],
    [name |-> "Priya", email |-> "priya@x.org", password |-> "pw-p",
     gender |-> "male", age |-> 40, parent_name |-> "Mira",
     parent_email |-> "mira@x.org", parent_password |-> "pw-m"] }

\* Credentials typed into the login form.
LoginEmails == {"asha@x.org", "priya@x.org"}

LoginPasswords == {"pw-a", "pw-p"}

\* JSON bodies posted to /update_log: a period start that is a valid date,
\* and one in another date format.
UpdatePayloads ==
  { [period |-> [start |-> <<"2","0","2","4","-","0","1","-","0","1">>],
     update_type |-> "period"],
    [period |-> [start |-> <<"2","9","/","0","1","/","2","0","2","4">>],
     update_type |-> "period"] }

\* The users in the order of users.items(): user_1, user_2, ...
user_order(table) == [n \in 1..Cardinality(DOMAIN table) |-> user_id_of(n)]

\* The first user, in the order of users.items(), whose credentials of the
\* given kind match: <<user_id>>, or <<>> when the loop ends without a match.
first_match(table, email, password, is_parent) ==
  LET order == user_order(table)
      hits  == {n \in 1..Len(order) :
                  IF is_parent
                    THEN /\ table[order[n]].parent_email = email
                         /\ table[order[n]].parent_password
                              = hash_password(password)
                    ELSE /\ table[order[n]].email = email
                         /\ table[order[n]].password = hash_password(password)}
  IN  IF hits = {} THEN <<>>
      ELSE <<order[CHOOSE n \in hits : \A m \in hits : n <= m]>>

\* session.get('is_parent'), as a truth value
session_is_parent(s) == "is_parent" \in DOMAIN s /\ s["is_parent"]

\* Faulty variant of user_unauthorized: the is_parent flag is not consulted.
user_unauthorized_any_role(s) == "user_id" \notin DOMAIN s

\* The guard of dashboard and update_log:
\* 'user_id' not in session or session.get('is_parent')
user_unauthorized(s) == "user_id" \notin DOMAIN s \/ session_is_parent(s)

\* The guard of parent_dashboard:
\* 'parent_user_id' not in session or not session.get('is_parent')
parent_unauthorized(s) == "parent_user_id" \notin DOMAIN s \/ ~session_is_parent(s)

\* POST /login
login ==
  \E email \in LoginEmails, password \in LoginPasswords, is_parent \in BOOLEAN :
    LET found == first_match(users, email, password, is_parent)
    IN  /\ IF found = <<>>
             THEN /\ session' = session
                  /\ response' = [route |-> "login", status |-> 200,
                                  error |-> "Invalid credentials"]
           ELSE IF is_parent
             THEN /\ session' = Put(Put(session, "parent_user_id", found[1]),
                                    "is_parent", TRUE)
                  /\ response' = [route |-> "login", status |-> 302,
                                  location |-> "parent_dashboard"]
             ELSE /\ session' = Put(Put(session, "user_id", found[1]),
                                    "is_parent", FALSE)
                  /\ response' = [route |-> "login", status |-> 302,
                                  location |-> "dashboard"]
        /\ UNCHANGED <<users, logs, clock, cycle_vars, conc_vars>>

\* GET /logout
logout ==
  /\ session' = EmptyDict
  /\ response' = [route |-> "logout", status |-> 302, location |-> "login"]
  /\ UNCHANGED <<users, logs, clock, cycle_vars, conc_vars>>

\* Faulty variant of registration_clash: the parent e-mail is not compared.
registration_clash_email_only(table, form) ==
  \E u \in DOMAIN table : table[u].email = form.email

\* The duplicate check of register: some stored user has the form's e-mail
\* or the form's parent e-mail.
registration_clash(table, form) ==
  \E u \in DOMAIN table :
    \/ table[u].email = form.email
    \/ table[u].parent_email = form.parent_email

\* The error of the first user, in the order of users.items(), at which the
\* duplicate check returns.
registration_error(table, form) ==
  LET order == user_order(table)
      hits  == {i \in 1..Len(order) :
                  \/ table[order[i]].email = form.email
                  \/ table[order[i]].parent_email = form.parent_email}
  IN  IF hits = {} THEN "Parent email already registered"
      ELSE LET n == CHOOSE i \in hits : \A j \in hits : i <= j
           IN  IF table[order[n]].email = form.email
                 THEN "Email already registered"
                 ELSE "Parent email already registered"

\* f"user_{len(users) + 1}"
new_user_id(table) == user_id_of(Cardinality(DOMAIN table) + 1)

\* The user record built from the form on the given day.
new_user_data(form, day) ==
  [name            |-> form.name,
   email           |-> form.email,
   password        |-> hash_password(form.password),
   gender          |-> form.gender,
   age             |-> form.age,
   parent_name     |-> form.parent_name,
   parent_email    |-> form.parent_email,
   parent_password |-> hash_password(form.parent_password),
   created_at      |-> today_of(day) \o <<" ">>
                         \o get_current_time \o <<":","0","0">>]

\* POST /register with the given form
register_post(form) ==
  /\ IF registration_clash(users, form)
       THEN /\ response' = [route |-> "register", status |-> 200,
                            error |-> registration_error(users, form)]
            /\ UNCHANGED <<users, logs>>
       ELSE
         LET user_id == new_user_id(users)
         IN  /\ users' = Put(users, user_id, new_user_data(form, clock))
             /\ logs' = Put(logs, user_id,
                            Put(EmptyDict, today_of(clock), initialize_daily_log))
             /\ response' = [route |-> "register", status |-> 302,
                             location |-> "login"]
  /\ UNCHANGED <<session, clock, cycle_vars, conc_vars>>

\* POST /register
register == \E form \in RegisterForms : register_post(form)

\* logs with today's entry of user_id created when it is missing
\* (the two "not in" branches of dashboard and update_log).
with_today(store, user_id, today) ==
  LET with_user == IF user_id \in DOMAIN store THEN store
                   ELSE Put(store, user_id, EmptyDict)
  IN  IF today \in DOMAIN with_user[user_id] THEN with_user
      ELSE Put(with_user, user_id,
               Put(with_user[user_id], today, initialize_daily_log))

\* The dates of a user's logs in the order of .items(): entries are created
\* for the current day only, so insertion order is date order.
RECURSIVE dates_in_order(_)
dates_in_order(keys) ==
  IF keys = {} THEN <<>>
  ELSE
    LET first == CHOOSE k \in keys :
                   \A j \in keys : strptime(k)[1] <= strptime(j)[1]
    IN  <<first>> \o dates_in_order(keys \ {first})

\* The period history both dashboards collect from a user's logs: one
\* record for every entry with a non-empty period start.
collect_period_history(user_logs) ==
  LET order == dates_in_order(DOMAIN user_logs)
      all   == [i \in 1..Len(order) |->
                  [date |-> order[i], start |-> user_logs[order[i]].period.start]]
  IN  SelectSeq(all, LAMBDA r : r.start # <<>>)

\* The cycle computations of both dashboards, for a female user: TRUE when
\* they complete, FALSE when predict_next_period raises (an unhandled
\* exception, answered with status 500).
cycle_section_completes(gender, history) ==
  IF gender = "female"
    THEN LET cycle_analysis == calculate_cycle_analysis(history)
         IN  ~predict_next_period(history, cycle_analysis.cycle_length).raised
    ELSE TRUE

\* GET /dashboard
dashboard ==
  /\ IF user_unauthorized(session)
       THEN /\ response' = [route |-> "dashboard", status |-> 302,
                            location |-> "login"]
            /\ UNCHANGED logs
       ELSE
         LET user_id == session["user_id"]
             today   == today_of(clock)
             saved   == with_today(logs, user_id, today)
             history == collect_period_history(saved[user_id])
         IN  /\ logs' = saved
             /\ response' =
                  [route |-> "dashboard",
                   status |->
                     IF cycle_section_completes(users[user_id].gender, history)
                       THEN 200 ELSE 500]
  /\ UNCHANGED <<users, session, clock, cycle_vars, conc_vars>>

\* GET /parent_dashboard
parent_dashboard ==
  /\ IF parent_unauthorized(session)
       THEN response' = [route |-> "parent_dashboard", status |-> 302,
                         location |-> "login"]
       ELSE
         LET user_id == session["parent_user_id"]
             history == IF user_id \in DOMAIN logs
                          THEN collect_period_history(logs[user_id])
                          ELSE <<>>
         IN  response' =
               [route |-> "parent_dashboard",
                status |->
                  IF cycle_section_completes(users[user_id].gender, history)
                    THEN 200 ELSE 500]
  /\ UNCHANGED <<users, logs, session, clock, cycle_vars, conc_vars>>

\* The daily log after the fields of the posted data have been applied.
apply_update(entry, data, current_time) ==
  LET has(k) == k \in DOMAIN data
      timestamp_mapping ==
        [morning |-> "breakfast", afternoon |-> "lunch",
         evening |-> "evening", dinner_snacks |-> "dinner"]
      stamped ==
        IF ~has("update_type") THEN entry.last_updated
        ELSE IF data["update_type"] \in DOMAIN timestamp_mapping
          THEN Put(entry.last_updated,
                   timestamp_mapping[data["update_type"]], current_time)
        ELSE IF data["update_type"] \in DOMAIN entry.last_updated
          THEN Put(entry.last_updated, data["update_type"], current_time)
        ELSE entry.last_updated
  IN  [meals        |-> IF has("meals")
                          THEN Update(entry.meals, data["meals"])
                          ELSE entry.meals,
       water_ml     |-> IF has("water_ml") THEN data["water_ml"]
                        ELSE entry.water_ml,
       sleep_hours  |-> IF has("sleep_hours") THEN data["sleep_hours"]
                        ELSE entry.sleep_hours,
       tasks        |-> IF has("tasks") THEN data["tasks"] ELSE entry.tasks,
       period       |-> IF has("period")
                          THEN Update(entry.period, data["period"])
                          ELSE entry.period,
       last_updated |-> stamped]

\* POST /update_log
update_log ==
  \E data \in UpdatePayloads :
    /\ IF user_unauthorized(session)
         THEN /\ response' = [route |-> "update_log", success |-> FALSE,
                              error |-> "Unauthorized"]
              /\ UNCHANGED logs
         ELSE
           LET user_id == session["user_id"]
               today   == today_of(clock)
               current_time == get_current_time
               loaded  == with_today(logs, user_id, today)
               entry   == apply_update(loaded[user_id][today], data, current_time)
           IN  /\ logs' = Put(loaded, user_id, Put(loaded[user_id], today, entry))
               /\ response' = [route |-> "update_log", success |-> TRUE,
                               timestamp |-> current_time]
    /\ UNCHANGED <<users, session, clock, cycle_vars, conc_vars>>

\* Midnight passes: datetime.now() is on the next day.
Tick ==
  /\ clock < FirstDay + MaxDays - 1
  /\ clock' = clock + 1
  /\ UNCHANGED <<users, logs, session, response, cycle_vars, conc_vars>>

Init ==
  /\ WebInit
  /\ period_history = <<>>
  /\ call = [op |-> "none"]
  /\ result = Return(<<>>)

Next ==
  \/ login
  \/ logout
  \/ register
  \/ dashboard
  \/ parent_dashboard
  \/ update_log
  \/ Tick

Spec == Init /\ [][Next]_vars

(***************************************************************************)
(* C10 -- parent access is read-only                                       *)
(***************************************************************************)
\* The session is a parent session: its is_parent flag is true, or it has
\* authenticated with parent credentials and never with user credentials.
ParentSession(s) ==
  \/ "is_parent" \in DOMAIN s /\ s["is_parent"] = TRUE
  \/ "parent_user_id" \in DOMAIN s /\ "user_id" \notin DOMAIN s

SessionRoutes == {"login", "logout", "dashboard", "parent_dashboard", "update_log"}

\* C10: a login, logout, dashboard, parent_dashboard or update_log request
\* made by a parent session never changes the log store; update_log answers
\* it with success false / 'Unauthorized' and dashboard redirects to login.
C10_ParentReadOnly ==
  [][ (ParentSession(session) /\ response'.route \in SessionRoutes) =>
        /\ logs' = logs
        /\ response'.route = "update_log" =>
             response' = [route |-> "update_log", success |-> FALSE,
                          error |-> "Unauthorized"]
        /\ response'.route = "dashboard" =>
             response' = [route |-> "dashboard", status |-> 302,
                          location |-> "login"] ]_vars

\* A browser that logged in as a user and then as a parent has had an
\* update_log refused while the store holds logs it could have written to.
C10_Witness ==
  /\ "user_id" \in DOMAIN session
  /\ ParentSession(session)
  /\ session["user_id"] \in DOMAIN logs
  /\ today_of(clock) \notin DOMAIN logs[session["user_id"]]
  /\ response = [route |-> "update_log", success |-> FALSE,
                 error |-> "Unauthorized"]

(***************************************************************************)
(* Concurrent requests: two browsers, each logged in as a different user,  *)
(* send update_log and dashboard requests that the server handles in       *)
(* separate threads.  A handler's load_json, the open(file, 'w') of its    *)
(* save_json and the json.dump that follows are separate steps, and the    *)
(* steps of different requests interleave.                                 *)
(***************************************************************************)
Browsers == {"browser_1", "browser_2"}

\* The users registered before the browsers log in, in registration order.
ConcForms ==
  << CHOOSE f \in RegisterForms : f.gender = "female",
     CHOOSE f \in RegisterForms : f.gender = "male" >>

\* The session of each browser after its user login.
session_of(b) ==
  IF b = "browser_1"
    THEN Put(Put(EmptyDict, "user_id", user_id_of(1)), "is_parent", FALSE)
    ELSE Put(Put(EmptyDict, "user_id", user_id_of(2)), "is_parent", FALSE)

idle == [route |-> "idle"]

\* What load_json(LOGS_FILE) returns: the document, or {} when json.load
\* raises JSONDecodeError on a file that another request has truncated; the
\* except branch then rewrites the file as {}.
load_json(file, is_truncated) == IF is_truncated THEN EmptyDict ELSE file

\* Both users have registered on the first day and both browsers have
\* logged in; no request is being handled.
ConcInit ==
  /\ users = Put(Put(EmptyDict, user_id_of(1),
                     new_user_data(ConcForms[1], FirstDay)),
                 user_id_of(2), new_user_data(ConcForms[2], FirstDay))
  /\ logs = Put(Put(EmptyDict, user_id_of(1),
                    Put(EmptyDict, today_of(FirstDay), initialize_daily_log)),
                user_id_of(2),
                Put(EmptyDict, today_of(FirstDay), initialize_daily_log))
  /\ session = EmptyDict
  /\ clock = FirstDay
  /\ response = [route |-> "none"]
  /\ threads = [b \in Browsers |-> idle]
  /\ truncated = FALSE
  /\ period_history = <<>>
  /\ call = [op |-> "none"]
  /\ result = Return(<<>>)

\* POST /update_log up to its call of save_json: the guard, load_json and
\* the changes made to the loaded dict.
update_log_load(b) ==
  /\ threads[b] = idle
  /\ ~user_unauthorized(session_of(b))
  /\ \E data \in UpdatePayloads :
       LET user_id == session_of(b)["user_id"]
           today   == today_of(clock)
           loaded  == with_today(load_json(logs, truncated), user_id, today)
           entry   == apply_update(loaded[user_id][today], data,
                                   get_current_time)
       IN  threads' =
             [threads EXCEPT ![b] =
                [route |-> "update_log", pc |-> "save_json",
                 user_id |-> user_id, today |-> today,
                 logs |-> Put(loaded, user_id,
                              Put(loaded[user_id], today, entry))]]
  /\ logs' = load_json(logs, truncated)
  /\ truncated' = FALSE
  /\ UNCHANGED <<users, session, clock, response, cycle_vars>>

\* GET /dashboard up to its call of save_json.
dashboard_load(b) ==
  /\ threads[b] = idle
  /\ ~user_unauthorized(session_of(b))
  /\ LET user_id == session_of(b)["user_id"]
         today   == today_of(clock)
     IN  threads' =
           [threads EXCEPT ![b] =
              [route |-> "dashboard", pc |-> "save_json",
               user_id |-> user_id, today |-> today,
               logs |-> with_today(load_json(logs, truncated), user_id, today)]]
  /\ logs' = load_json(logs, truncated)
  /\ truncated' = FALSE
  /\ UNCHANGED <<users, session, clock, response, cycle_vars>>

\* save_json: open(file, 'w') truncates logs.json.
save_json_open(b) ==
  /\ threads[b] # idle
  /\ threads[b].pc = "save_json"
  /\ threads' = [threads EXCEPT ![b].pc = "json.dump"]
  /\ truncated' = TRUE
  /\ UNCHANGED <<users, logs, session, clock, response, cycle_vars>>

\* save_json of update_log: json.dump writes the request's dict and the file
\* is closed; the request is answered.
update_log_dump(b) ==
  /\ threads[b] # idle
  /\ threads[b].route = "update_log"
  /\ threads[b].pc = "json.dump"
  /\ logs' = threads[b].logs
  /\ truncated' = FALSE
  /\ response' = [route |-> "update_log", success |-> TRUE,
                  timestamp |-> get_current_time]
  /\ threads' = [threads EXCEPT ![b] = idle]
  /\ UNCHANGED <<users, session, clock, cycle_vars>>

\* save_json of dashboard, and the cycle computations after it.
dashboard_dump(b) ==
  /\ threads[b] # idle
  /\ threads[b].route = "dashboard"
  /\ threads[b].pc = "json.dump"
  /\ logs' = threads[b].logs
  /\ truncated' = FALSE
  /\ LET user_id == threads[b].user_id
         history == collect_period_history(threads[b].logs[user_id])
     IN  response' =
           [route |-> "dashboard",
            status |->
              IF cycle_section_completes(users[user_id].gender, history)
                THEN 200 ELSE 500]
  /\ threads' = [threads EXCEPT ![b] = idle]
  /\ UNCHANGED <<users, session, clock, cycle_vars>>

\* Midnight passes while requests are being handled.
ConcTick ==
  /\ clock < FirstDay + MaxDays - 1
  /\ clock' = clock + 1
  /\ UNCHANGED <<users, logs, session, response, cycle_vars, conc_vars>>

ConcNext ==
  \/ \E b \in Browsers : update_log_load(b)
  \/ \E b \in Browsers : dashboard_load(b)
  \/ \E b \in Browsers : save_json_open(b)
  \/ \E b \in Browsers : update_log_dump(b)
  \/ \E b \in Browsers : dashboard_dump(b)
  \/ ConcTick

SpecConc == ConcInit /\ [][ConcNext]_vars

(***************************************************************************)
(* C11 -- a request changes only its own user's entry of today             *)
(***************************************************************************)
\* The user a browser is logged in as.
UserOf(b) == IF b = "browser_1" THEN <<"user_", 1>> ELSE <<"user_", 2>>

\* The date a request of the browser writes to: the one it read when it
\* started, or the current day when it is about to start.
RequestDay(b) ==
  IF "today" \in DOMAIN threads[b] THEN threads[b].today ELSE strftime(clock)

\* Every entry of the store other than the given user's entry of the given
\* date is in the store afterwards, with the same value.
OthersKept(u, day) ==
  \A v \in DOMAIN logs : \A d \in DOMAIN logs[v] :
    (v # u \/ d # day) =>
      /\ v \in DOMAIN logs'
      /\ d \in DOMAIN logs'[v]
      /\ logs'[v][d] = logs[v][d]

\* C11: every step of an update_log or dashboard request of user u, the
\* step that completes a successful update_log included, leaves every other
\* user's logs and u's entries of other dates in the log store as they were
\* last written, also when requests of different users interleave: no
\* update of another user is lost or reverted and no load wipes the store.
C11_OnlyOwnEntryOfToday ==
  [][ \A b \in Browsers :
        threads'[b] # threads[b] => OthersKept(UserOf(b), RequestDay(b)) ]_vars

(***************************************************************************)
(* Registrations only: register requests, one completing before the next   *)
(* starts, with forms whose e-mail and parent e-mail are drawn             *)
(* independently from a pool of addresses.                                 *)
(***************************************************************************)
\* Number of distinct addresses typed into the forms.
MaxAddresses == 3

AddressPool ==
  <<"asha@x.org", "priya@x.org", "mira@x.org", "ravi@x.org", "devi@x.org">>

Addresses == {AddressPool[i] : i \in 1..MaxAddresses}

\* Forms with any pair of addresses as e-mail and parent e-mail.
AddressForms ==
  { [name |-> "Asha", email |-> e, password |-> "pw-a", gender |-> "female",
     age |-> 16, parent_name |-> "Priya", parent_email |-> p,
     parent_password |-> "pw-p"] :
      e \in Addresses, p \in Addresses }

\* POST /register with any of the forms
register_address == \E form \in AddressForms : register_post(form)

RegisterNext ==
  \/ register_address
  \/ Tick

SpecRegister == Init /\ [][RegisterNext]_vars

(***************************************************************************)
(* C12 -- registrations add users and never alter or duplicate them        *)
(***************************************************************************)
\* No two users of the table share an e-mail or share a parent e-mail.
AddressesUnique(table) ==
  \A u, v \in DOMAIN table :
    u # v => /\ table[u].email # table[v].email
             /\ table[u].parent_email # table[v].parent_email

\* The step added exactly one user, under an id 'user_<k>' that neither
\* store held, and left every stored user and every stored log as it was.
AddedFreshUser ==
  \E k \in 1..(Cardinality(DOMAIN users) + 1) :
    LET id == <<"user_", k>>
    IN  /\ id \notin DOMAIN users
        /\ id \notin DOMAIN logs
        /\ DOMAIN users' = DOMAIN users \cup {id}
        /\ DOMAIN logs' = DOMAIN logs \cup {id}
        /\ \A u \in DOMAIN users : users'[u] = users[u]
        /\ \A u \in DOMAIN logs : logs'[u] = logs[u]

\* C12: in a sequence of register requests, a successful registration adds
\* one user under a fresh id 'user_<k>' and alters no stored user and no
\* stored logs, a rejected one leaves the user store and the log store
\* unchanged, and afterwards no two stored users share an e-mail and no two
\* share a parent e-mail.
C12_RegisterAddsFreshUnique ==
  [][ clock' = clock =>
        /\ response'.route = "register"
        /\ IF response'.status = 302
             THEN AddedFreshUser
             ELSE /\ response'.error \in {"Email already registered",
                                          "Parent email already registered"}
                  /\ users' = users
                  /\ logs' = logs
        /\ AddressesUnique(users') ]_vars

\* Two users registered on different days, and a form with an unused e-mail
\* has then been rejected for their parent e-mail.
C12_Witness ==
  /\ Cardinality(DOMAIN users) >= 2
  /\ \E u, v \in DOMAIN users : users[u].created_at # users[v].created_at
  /\ response = [route |-> "register", status |-> 200,
                 error |-> "Parent email already registered"]
  /\ \E e \in Addresses : \A u \in DOMAIN users : users[u].email # e

=============================================================================
